---- MODULE Spec2Model ----
(***************************************************************************)
(* Model of extra_data.export.serve_files: a run of trains is read from a  *)
(* file or run directory, optionally the modules of one multi-module       *)
(* detector are stacked into one synthetic source per train, and every     *)
(* non-empty train is fed to a karabo_bridge ServerInThread, whose bounded *)
(* queue is drained by the server's own thread.                            *)
(*                                                                         *)
(* A source name 'SPB_DET_AGIPD1M-1/DET/0CH0:xtdf' is the record           *)
(* [dev |-> "SPB_DET_AGIPD1M-1", tail |-> "CH", modno |-> 0]; the          *)
(* synthetic name '<dev>/DET/APPEND' has tail "APPEND"; a source that is   *)
(* no detector module has tail "OTHER".  A train's data (a Python dict) is *)
(* a sequence of [name, rec] entries in insertion order.  An array is      *)
(* [shape, cells]: cells holds one opaque content per module.              *)
(***************************************************************************)
EXTENDS Integers, Sequences, FiniteSets, TLC

\* ---------------------------------------------------------------- bounds
MaxTrains == 3
MaxQueueLen == 2
FirstTid == 100

\* ---------------------------------------------------------------- names
SrcName(dev, tail, modno) == [dev |-> dev, tail |-> tail, modno |-> modno]

A0 == SrcName("SPB_DET_AGIPD1M-1", "CH", 0)
A1 == SrcName("SPB_DET_AGIPD1M-1", "CH", 1)
D0 == SrcName("SCS_DET_DSSC1M-1", "CH", 0)
L0 == SrcName("FXE_DET_LPD1M-1", "CH", 0)
X0 == SrcName("SA1_XTD2_XGM", "OTHER", 0)

\* The sources a run may hold, in the reader's order.
UniverseSeq == <<A0, A1, D0, L0, X0>>

Range(s) == {s[k] : k \in DOMAIN s}

Reverse(s) == [k \in 1..Len(s) |-> s[Len(s) + 1 - k]]

\* The detector family a device name belongs to (the _AGIPD1M, _DSSC1M and
\* _LPD1M parts of the components' source patterns).
Family(dev) ==
    CASE dev = "SPB_DET_AGIPD1M-1" -> "AGIPD1M"
      [] dev = "SCS_DET_DSSC1M-1" -> "DSSC1M"
      [] dev = "FXE_DET_LPD1M-1" -> "LPD1M"
      [] OTHER -> "none"

\* A detector class's pattern '<dev>/DET/<modno>CH' matches the source name.
Matches(conv, name) == name.tail = "CH" /\ Family(name.dev) = conv

\* ---------------------------------------------------------------- data
ModuleShape == <<64, 64>>
OddShape == <<64, 128>>

\* The record the reader yields for one source of one train.
SourceRecord(tid, name, shape, pulseCount) ==
    [image_data |-> [shape |-> shape, cells |-> <<[tid |-> tid, src |-> name]>>],
     pulseCount |-> pulseCount,
     metadata |-> [source |-> name]]

Keys(train_data) == {train_data[k].name : k \in DOMAIN train_data}

\* train_data[name] of a dict that holds the key.
Get(train_data, name) ==
    train_data[CHOOSE k \in DOMAIN train_data : train_data[k].name = name].rec

\* ---------------------------------------------------------------- reader
\* The sources data.select(source_glob, key_glob) keeps: any of the
\* universe's sources, in the reader's order or the reverse of it.
Selections ==
    {SelectSeq(UniverseSeq, LAMBDA n : n \in S) : S \in SUBSET Range(UniverseSeq)}
    \cup {Reverse(SelectSeq(UniverseSeq, LAMBDA n : n \in S)) :
            S \in SUBSET Range(UniverseSeq)}

Defects == {"none", "key", "shape"}

\* The sources with data in one train: all of them (drop = 0), all but
\* the drop-th, or none (drop = Len(sel) + 1).
Present(sel, drop) ==
    IF drop = 0 THEN sel
    ELSE IF drop > Len(sel) THEN <<>>
    ELSE SelectSeq(sel, LAMBDA n : n # sel[drop])

\* The positions of the modules that follow another module of their device.
LaterModules(present) ==
    {k \in DOMAIN present :
        /\ present[k].tail = "CH"
        /\ \E j \in 1..(k - 1) :
              present[j].tail = "CH" /\ present[j].dev = present[k].dev}

\* The module whose record differs from the other modules' in this train:
\* the last such module, or 0 when the train has no defect.
OddModule(present, defect) ==
    IF defect = "none" \/ LaterModules(present) = {} THEN 0
    ELSE CHOOSE k \in LaterModules(present) :
            \A j \in LaterModules(present) : j <= k

\* One item of data.trains(): the train identifier and a fresh dict of the
\* selected sources with data in that train.
MkTrain(sel, tid, drop, defect) ==
    LET present == Present(sel, drop)
        odd == OddModule(present, defect)
    IN  [tid |-> tid,
         train_data |->
            [k \in DOMAIN present |->
                [name |-> present[k],
                 rec |-> SourceRecord(tid, present[k],
                            IF k = odd /\ defect = "shape"
                                THEN OddShape ELSE ModuleShape,
                            IF k = odd /\ defect = "key" THEN 1 ELSE 0)]]]

\* A train every selected source has consistent data in, or an empty one.
Plain(sel, v) == v.defect = "none" /\ v.drop \in {0, Len(sel) + 1}

\* The runs of at most MaxTrains trains, at most one of which is not Plain.
Runs(sel) ==
    UNION {
      {[k \in 1..n |-> MkTrain(sel, FirstTid + k - 1, v[k].drop, v[k].defect)] :
         v \in {w \in [1..n -> [drop : 0..(Len(sel) + 1), defect : Defects]] :
                   \A j, k \in 1..n :
                      ~Plain(sel, w[j]) /\ ~Plain(sel, w[k]) => j = k}} :
      n \in 0..MaxTrains}

\* A run directory, a path that does not exist, a file that is no data file.
\* (A readable single file differs from a run directory only in the class
\* that reads it.)
Paths == {"rundir", "missing", "notdata"}

\* RunDirectory(path) / H5File(path): the error opening the path raises.
OpenError(p) ==
    CASE p = "missing" -> "NotFoundError"
      [] p = "notdata" -> "FormatError"
      [] OTHER -> "none"

\* ---------------------------------------------------------------- detection
\* det = None
NoDet == [conv |-> "none", detector_name |-> "", detector_sources |-> {}]

\* detector(data) for one of the detector classes: SourceNameError when no
\* selected source matches the class's pattern, else the detector object;
\* det.data.detector_sources are the run's sources that match.
Detector(conv, sel) ==
    LET found == {n \in Range(sel) : Matches(conv, n)}
    IN  IF found = {} THEN [error |-> "SourceNameError", det |-> NoDet]
        ELSE [error |-> "none",
              det |-> [conv |-> conv,
                       detector_name |-> (CHOOSE n \in found : TRUE).dev,
                       detector_sources |-> found]]

DetectorClasses == <<"AGIPD1M", "DSSC1M", "LPD1M">>

\* TryDetectors without the break: a later class that accepts the sources
\* replaces an earlier one.
RECURSIVE TryDetectorsNoBreak(_, _)
TryDetectorsNoBreak(k, sel) ==
    IF k > Len(DetectorClasses) THEN NoDet
    ELSE IF TryDetectorsNoBreak(k + 1, sel) # NoDet
         THEN TryDetectorsNoBreak(k + 1, sel)
         ELSE Detector(DetectorClasses[k], sel).det

\* The loop over the detector classes from position k on: the first class
\* that does not raise SourceNameError is kept, None when all raise.
RECURSIVE TryDetectors(_, _)
TryDetectors(k, sel) ==
    IF k > Len(DetectorClasses) THEN NoDet
    ELSE IF Detector(DetectorClasses[k], sel).error = "SourceNameError"
         THEN TryDetectors(k + 1, sel)
         ELSE Detector(DetectorClasses[k], sel).det

\* FindDetector with det left bound to the last class tried when every class
\* raised SourceNameError.
FindDetectorKeepsLast(append_detector_modules, sel) ==
    IF ~append_detector_modules THEN NoDet
    ELSE IF TryDetectors(1, sel) # NoDet THEN TryDetectors(1, sel)
    ELSE [conv |-> DetectorClasses[Len(DetectorClasses)],
          detector_name |-> "", detector_sources |-> {}]

\* det after the detection block of serve_files.
FindDetector(append_detector_modules, sel) ==
    IF append_detector_modules THEN TryDetectors(1, sel) ELSE NoDet

\* ---------------------------------------------------------------- stacking
\* The entries of det_data ordered by increasing module number.
RECURSIVE SortByModno(_)
SortByModno(entries) ==
    IF entries = <<>> THEN <<>>
    ELSE LET m == CHOOSE k \in DOMAIN entries :
                    \A j \in DOMAIN entries :
                        entries[k].name.modno <= entries[j].name.modno
         IN  <<entries[m]>>
             \o SortByModno(SelectSeq(entries, LAMBDA e : e # entries[m]))

RECURSIVE ConcatCells(_)
ConcatCells(entries) ==
    IF entries = <<>> THEN <<>>
    ELSE Head(entries).rec.image_data.cells \o ConcatCells(Tail(entries))

\* StackDetectorData with the modules in the dict's insertion order.
StackInInsertionOrder(det_data) ==
    IF \E j, k \in DOMAIN det_data :
          det_data[j].rec.pulseCount # det_data[k].rec.pulseCount
    THEN [error |-> "InconsistentModulesError",
          arr |-> [shape |-> <<>>, cells |-> <<>>]]
    ELSE IF \E j, k \in DOMAIN det_data :
          det_data[j].rec.image_data.shape # det_data[k].rec.image_data.shape
    THEN [error |-> "ShapeError", arr |-> [shape |-> <<>>, cells |-> <<>>]]
    ELSE [error |-> "none",
          arr |-> [shape |-> <<Len(det_data)>>
                        \o (IF det_data = <<>> THEN <<>>
                            ELSE det_data[1].rec.image_data.shape),
                   cells |-> ConcatCells(det_data)]]

\* StackDetectorData without the comparison of the modules' other keys.
StackWithoutKeyCheck(det_data) ==
    IF \E j, k \in DOMAIN det_data :
          det_data[j].rec.image_data.shape # det_data[k].rec.image_data.shape
    THEN [error |-> "ShapeError", arr |-> [shape |-> <<>>, cells |-> <<>>]]
    ELSE [error |-> "none",
          arr |-> [shape |-> <<Len(det_data)>>
                        \o (IF det_data = <<>> THEN <<>>
                            ELSE det_data[1].rec.image_data.shape),
                   cells |-> ConcatCells(SortByModno(det_data))]]

\* stack_detector_data(det_data, 'image.data'): the modules' arrays along a
\* new leading module axis, in increasing module order; an error when the
\* modules disagree on a key other than the data key or on the array shape.
StackDetectorData(det_data) ==
    IF \E j, k \in DOMAIN det_data :
          det_data[j].rec.pulseCount # det_data[k].rec.pulseCount
    THEN [error |-> "InconsistentModulesError",
          arr |-> [shape |-> <<>>, cells |-> <<>>]]
    ELSE IF \E j, k \in DOMAIN det_data :
          det_data[j].rec.image_data.shape # det_data[k].rec.image_data.shape
    THEN [error |-> "ShapeError", arr |-> [shape |-> <<>>, cells |-> <<>>]]
    ELSE [error |-> "none",
          arr |-> [shape |-> <<Len(det_data)>>
                        \o (IF det_data = <<>> THEN <<>>
                            ELSE det_data[1].rec.image_data.shape),
                   cells |-> ConcatCells(SortByModno(det_data))]]

\* ---------------------------------------------------------------- assembly
\* source_name = f'{det.detector_name}/DET/APPEND'
AppendName(det) == SrcName(det.detector_name, "APPEND", 0)

\* det_data: the items of train_data whose key is a detector source.
DetData(train_data, det) ==
    SelectSeq(train_data, LAMBDA e : e.name \in det.detector_sources)

\* train_data[name] = rec: the value is replaced in place, a new key is
\* added at the end.
SetItem(train_data, name, rec) ==
    IF name \in Keys(train_data)
    THEN [k \in DOMAIN train_data |->
            IF train_data[k].name = name
            THEN [name |-> name, rec |-> rec] ELSE train_data[k]]
    ELSE Append(train_data, [name |-> name, rec |-> rec])

\* ModData without the assignment to mod_data['metadata']['source'].
ModDataKeepsSource(det_data, stacked, source_name) ==
    [det_data[1].rec EXCEPT !.image_data = stacked]

\* mod_data after the two assignments to it: the first module's record with
\* the stacked array and the new source name.
ModData(det_data, stacked, source_name) ==
    [det_data[1].rec EXCEPT !.image_data = stacked,
                            !.metadata.source = source_name]

\* RemoveModules removing every '<dev>/DET/<n>CH' source of the train, the
\* modules of other detectors included.
RemoveEveryDetectorSource(train_data, det) ==
    IF det.detector_sources \subseteq Keys(train_data)
    THEN [error |-> "none",
          train_data |-> SelectSeq(train_data, LAMBDA e : e.name.tail # "CH")]
    ELSE [error |-> "KeyError", train_data |-> train_data]

\* The loop that removes the module sources: KeyError when a detector
\* source of the run is not a key of this train.
RemoveModules(train_data, det) ==
    IF det.detector_sources \subseteq Keys(train_data)
    THEN [error |-> "none",
          train_data |-> SelectSeq(train_data,
                            LAMBDA e : e.name \notin det.detector_sources)]
    ELSE [error |-> "KeyError", train_data |-> train_data]

\* The body of the train loop between the emptiness test and the feed,
\* given what the stacking of det_data returned: the train's dict as it is
\* fed, or the exception that leaves the loop.
AssembleWith(stacked, train_data, det) ==
    IF det = NoDet THEN [error |-> "none", train_data |-> train_data]
    ELSE
      LET source_name == AppendName(det)
          det_data == DetData(train_data, det)
      IN  IF stacked.error # "none"
          THEN [error |-> stacked.error, train_data |-> train_data]
          ELSE IF det_data = <<>>
          THEN [error |-> "StopIteration", train_data |-> train_data]
          ELSE
            LET mod_data == ModData(det_data, stacked.arr, source_name)
                \* mod_data is the first module's own record: the module's
                \* entry shows the assignments too, until it is removed.
                aliased == SetItem(SetItem(train_data, source_name, mod_data),
                                   det_data[1].name, mod_data)
            IN  RemoveModules(aliased, det)

\* Assemble with the arrays stacked as det_data.values() yields them.
AssembleInInsertionOrder(train_data, det) ==
    AssembleWith(StackInInsertionOrder(DetData(train_data, det)),
                 train_data, det)

\* The loop body as serve_files has it: stack_detector_data does the stacking.
Assemble(train_data, det) ==
    AssembleWith(StackDetectorData(DetData(train_data, det)), train_data, det)

\* mod_data is not bound yet.
NoModule == [tid |-> 0, name |-> SrcName("", "", 0)]

\* What mod_data refers to after the loop body ran on a train: the first
\* value of det_data, once the stacking has returned.
ModSource(train, det, before) ==
    IF /\ det # NoDet
       /\ DetData(train.train_data, det) # <<>>
       /\ StackDetectorData(DetData(train.train_data, det)).error = "none"
    THEN [tid |-> train.tid, name |-> DetData(train.train_data, det)[1].name]
    ELSE before

\* ---------------------------------------------------------------- state
VARIABLES
    path,                    \* the path argument of serve_files
    append_detector_modules, \* the append_detector_modules argument
    maxlen,                  \* the capacity of the server's queue
    sel,                     \* the sources of data after data.select(...)
    data,                    \* the trains data.trains() yields
    pc,                      \* where serve_files is
    error,                   \* the exception that left serve_files
    det,                     \* det
    next_train,              \* position of data.trains()
    current,                 \* (tid, train_data) about to be fed
    started,                 \* streamer.start() was called
    endpoint_printed,        \* 'Streamer started on: ...' was printed
    stopped,                 \* streamer.stop() was called
    buffer,                  \* the server's queue
    fed,                     \* the trains streamer.feed(...) returned for
    sent,                    \* the trains the server sent to a client
    mod_source               \* the train and the key mod_data was taken from

vars == <<path, append_detector_modules, maxlen, sel, data, pc, error, det,
          next_train, current, started, endpoint_printed, stopped, buffer,
          fed, sent, mod_source>>

args == <<path, append_detector_modules, maxlen, sel, data>>

NoTrain == [tid |-> 0, train_data |-> <<>>]

Init ==
    /\ path \in Paths
    /\ append_detector_modules \in BOOLEAN
    /\ maxlen \in 1..MaxQueueLen
    /\ sel \in IF OpenError(path) = "none" THEN Selections ELSE {<<>>}
    /\ data \in IF OpenError(path) = "none" THEN Runs(sel) ELSE {<<>>}
    /\ pc = "open"
    /\ error = "none"
    /\ det = NoDet
    /\ next_train = 1
    /\ current = NoTrain
    /\ started = FALSE
    /\ endpoint_printed = FALSE
    /\ stopped = FALSE
    /\ buffer = <<>>
    /\ fed = <<>>
    /\ sent = <<>>
    /\ mod_source = NoModule

\* ---------------------------------------------------------------- serve_files
\* Open with the server started before the path is opened.
OpenAfterStart ==
    /\ pc = "open"
    /\ started' = TRUE
    /\ endpoint_printed' = TRUE
    /\ IF OpenError(path) # "none"
       THEN pc' = "raised" /\ error' = OpenError(path)
       ELSE pc' = "detect" /\ error' = error
    /\ UNCHANGED <<args, mod_source, det, next_train, current, stopped, buffer,
                   fed, sent>>

\* RunDirectory(path) or H5File(path), then data.select(...).
Open ==
    /\ pc = "open"
    /\ IF OpenError(path) # "none"
       THEN pc' = "raised" /\ error' = OpenError(path)
       ELSE pc' = "detect" /\ error' = error
    /\ UNCHANGED <<args, mod_source, det, next_train, current, started, endpoint_printed,
                   stopped, buffer, fed, sent>>

\* The detection block.
Detect ==
    /\ pc = "detect"
    /\ det' = FindDetector(append_detector_modules, sel)
    /\ pc' = "start"
    /\ UNCHANGED <<args, mod_source, error, next_train, current, started,
                   endpoint_printed, stopped, buffer, fed, sent>>

\* streamer = ServerInThread(...); streamer.start(); print(...)
Start ==
    /\ pc = "start"
    /\ started' = TRUE
    /\ endpoint_printed' = TRUE
    /\ pc' = "trains"
    /\ UNCHANGED <<args, mod_source, error, det, next_train, current, stopped, buffer,
                   fed, sent>>

\* NextTrain working on the reader's own dict instead of a fresh one: what
\* the loop body does to train_data shows in the data read again.
NextTrainInPlace ==
    /\ pc = "trains"
    /\ IF next_train > Len(data)
       THEN /\ pc' = "stop"
            /\ UNCHANGED <<data, error, next_train, current, mod_source>>
       ELSE IF data[next_train].train_data = <<>>
       THEN /\ next_train' = next_train + 1
            /\ UNCHANGED <<data, pc, error, current, mod_source>>
       ELSE LET r == Assemble(data[next_train].train_data, det)
            IN  /\ mod_source' = ModSource(data[next_train], det, mod_source)
                /\ data' = [data EXCEPT ![next_train].train_data = r.train_data]
                /\ IF r.error # "none"
                   THEN /\ pc' = "raised"
                        /\ error' = r.error
                        /\ UNCHANGED <<next_train, current>>
                   ELSE /\ pc' = "feed"
                        /\ current' = [tid |-> data[next_train].tid,
                                       train_data |-> r.train_data]
                        /\ next_train' = next_train + 1
                        /\ error' = error
    /\ UNCHANGED <<path, append_detector_modules, maxlen, sel, det, started,
                   endpoint_printed, stopped, buffer, fed, sent>>

\* One step of the loop over data.trains(), up to the call of feed.
NextTrain ==
    /\ pc = "trains"
    /\ IF next_train > Len(data)
       THEN /\ pc' = "stop"
            /\ UNCHANGED <<error, next_train, current, mod_source>>
       ELSE IF data[next_train].train_data = <<>>
       THEN /\ next_train' = next_train + 1
            /\ UNCHANGED <<pc, error, current, mod_source>>
       ELSE LET r == Assemble(data[next_train].train_data, det)
            IN  /\ mod_source' = ModSource(data[next_train], det, mod_source)
                /\ IF r.error # "none"
                   THEN /\ pc' = "raised"
                        /\ error' = r.error
                        /\ UNCHANGED <<next_train, current>>
                   ELSE /\ pc' = "feed"
                        /\ current' = [tid |-> data[next_train].tid,
                                       train_data |-> r.train_data]
                        /\ next_train' = next_train + 1
                        /\ error' = error
    /\ UNCHANGED <<args, det, started, endpoint_printed, stopped, buffer,
                   fed, sent>>

\* Full with the comparison off by one.
FullOffByOne(q, n) == Len(q) > n

\* Queue.full() of the server's queue.
Full(q, n) == Len(q) >= n

\* streamer.feed(train_data): returns once the queue has taken the train.
Feed ==
    /\ pc = "feed"
    /\ ~Full(buffer, maxlen)
    /\ buffer' = Append(buffer, current)
    /\ fed' = Append(fed, current)
    /\ current' = NoTrain
    /\ pc' = "trains"
    /\ UNCHANGED <<args, mod_source, error, det, next_train, started, endpoint_printed,
                   stopped, sent>>

\* streamer.stop() after the loop.
Stop ==
    /\ pc = "stop"
    /\ stopped' = TRUE
    /\ pc' = "done"
    /\ UNCHANGED <<args, mod_source, error, det, next_train, current, started,
                   endpoint_printed, buffer, fed, sent>>

\* KeyboardInterrupt in the main thread: nothing in serve_files or main
\* catches it.
Interrupt ==
    /\ pc \notin {"done", "raised"}
    /\ pc' = "raised"
    /\ error' = "KeyboardInterrupt"
    /\ UNCHANGED <<args, mod_source, det, next_train, current, started, endpoint_printed,
                   stopped, buffer, fed, sent>>

\* ---------------------------------------------------------------- server
\* Serve answering with the newest train of the queue.
ServeNewest ==
    /\ started
    /\ ~stopped
    /\ pc # "raised"
    /\ buffer # <<>>
    /\ sent' = Append(sent, buffer[Len(buffer)])
    /\ buffer' = SubSeq(buffer, 1, Len(buffer) - 1)
    /\ UNCHANGED <<args, mod_source, pc, error, det, next_train, current, started,
                   endpoint_printed, stopped, fed>>

\* The server's thread answers a client's request with the oldest train.
Serve ==
    /\ started
    /\ ~stopped
    /\ pc # "raised"
    /\ buffer # <<>>
    /\ sent' = Append(sent, Head(buffer))
    /\ buffer' = Tail(buffer)
    /\ UNCHANGED <<args, mod_source, pc, error, det, next_train, current, started,
                   endpoint_printed, stopped, fed>>

Next ==
    \/ Open
    \/ Detect
    \/ Start
    \/ NextTrain
    \/ Feed
    \/ Stop
    \/ Interrupt
    \/ Serve

Spec == Init /\ [][Next]_vars

\* serve_files left alone by signals, the main thread running whenever it
\* can and a client that keeps asking for the next train.
NextUninterrupted ==
    \/ Open
    \/ Detect
    \/ Start
    \/ NextTrain
    \/ Feed
    \/ Stop
    \/ Serve

FairSpec ==
    /\ Init
    /\ [][NextUninterrupted]_vars
    /\ WF_vars(Open)
    /\ WF_vars(Detect)
    /\ WF_vars(Start)
    /\ WF_vars(NextTrain)
    /\ WF_vars(Feed)
    /\ WF_vars(Stop)
    /\ WF_vars(Serve)

\* ---------------------------------------------------------------- helpers of the properties
\* The train data.trains() yields for a train identifier.
Original(tid) == data[CHOOSE k \in DOMAIN data : data[k].tid = tid].train_data

NonEmptyTids == {data[k].tid : k \in {j \in DOMAIN data : data[j].train_data # <<>>}}

FedTids == {fed[k].tid : k \in DOMAIN fed}

StartupErrors == {"NotFoundError", "FormatError"}

StackingErrors == {"InconsistentModulesError", "ShapeError"}

\* serve_files is past the loop over the trains, or an exception of the
\* loop's own body ended it.
LoopOver ==
    \/ pc \in {"stop", "done"}
    \/ pc = "raised" /\ error \notin StartupErrors \cup {"KeyboardInterrupt"}

\* The place of a module along the stacked array's leading axis.
ModuleRank(mods, m) == 1 + Cardinality({n \in mods : n.modno < m.modno})

\* Slice k of an array along its leading axis.
Slice(arr, k) == [shape |-> Tail(arr.shape), cells |-> <<arr.cells[k]>>]

\* ---------------------------------------------------------------- C1
\* C1: the trains fed are non-empty trains of the run, fed once each in
\* strictly increasing train-identifier order, and once the loop over the
\* trains is over every non-empty train of the run has been fed, with
\* append_detector_modules on or off.
C1_FeedsEveryNonEmptyTrain ==
    /\ \A j, k \in DOMAIN fed : j < k => fed[j].tid < fed[k].tid
    /\ \A k \in DOMAIN fed : fed[k].train_data # <<>>
    /\ FedTids \subseteq NonEmptyTids
    /\ LoopOver => FedTids = NonEmptyTids

\* ---------------------------------------------------------------- C2
\* The trains of the run whose stacking fails under the detected detector.
StackingFails(k) ==
    /\ data[k].train_data # <<>>
    /\ FindDetector(append_detector_modules, sel) # NoDet
    /\ StackDetectorData(DetData(data[k].train_data,
          FindDetector(append_detector_modules, sel))).error \in StackingErrors

\* C2: a stacking error of one train never leaves the loop over the trains:
\* the train is fed as the reader gave it, and once the loop is over every
\* non-empty train after it has been fed too.
C2_StackingErrorPassesThrough ==
    /\ error \notin StackingErrors
    /\ \A k \in DOMAIN data :
          StackingFails(k) /\ LoopOver =>
             /\ \E j \in DOMAIN fed :
                   fed[j] = [tid |-> data[k].tid,
                             train_data |-> data[k].train_data]
             /\ \A n \in (k + 1)..Len(data) :
                   data[n].train_data # <<>> => data[n].tid \in FedTids

\* ---------------------------------------------------------------- C3
\* C3: the queue never holds more than maxlen trains; a call of feed returns
\* exactly when the queue is not full, so with a server that sends nothing
\* the first maxlen calls return and the next does not while stop() has not
\* been called.
C3_Backpressure ==
    /\ Len(buffer) <= maxlen
    /\ Len(fed) <= Len(sent) + maxlen
    /\ pc = "feed" /\ ~stopped => (ENABLED Feed <=> Len(buffer) < maxlen)
    /\ pc = "feed" /\ sent = <<>> /\ Len(fed) < maxlen => ENABLED Feed
    /\ pc = "feed" /\ sent = <<>> /\ Len(fed) = maxlen /\ ~stopped
          => ~ENABLED Feed

\* The (maxlen + 1)th feed waits on a full queue nothing was sent from.
C3_Witness ==
    /\ pc = "feed"
    /\ sent = <<>>
    /\ Len(fed) = maxlen
    /\ Len(buffer) = maxlen
    /\ ~stopped

\* ---------------------------------------------------------------- C4
\* C4: a producer waiting in feed on a full queue leaves feed only because
\* the queue took its train or because stop() was called.
C4_OnlyStopCancelsFeed ==
    [][pc = "feed" /\ Full(buffer, maxlen) /\ pc' # "feed"
          => fed' # fed \/ stopped']_vars

\* ---------------------------------------------------------------- C5
NoConventionMatches ==
    \A n \in Range(sel) : \A k \in DOMAIN DetectorClasses :
        ~Matches(DetectorClasses[k], n)

\* C5: with append_detector_modules on and no selected source matching a
\* detector class, det is None, no exception of the loop's body leaves
\* serve_files, every train fed is the reader's train unmodified, and every
\* non-empty train is fed.
C5_NoDetectorPassThrough ==
    append_detector_modules /\ NoConventionMatches =>
        /\ pc \notin {"open", "detect"} => det = NoDet
        /\ error \in StartupErrors \cup {"none", "KeyboardInterrupt"}
        /\ \A k \in DOMAIN fed : fed[k].train_data = Original(fed[k].tid)
        /\ pc \in {"stop", "done"} => FedTids = NonEmptyTids

C5_Witness ==
    /\ append_detector_modules
    /\ NoConventionMatches
    /\ sel # <<>>
    /\ pc = "done"
    /\ fed # <<>>

\* ---------------------------------------------------------------- C6
\* The positions of the synthetic sources in a dict.
AppendEntries(train_data) ==
    {k \in DOMAIN train_data : train_data[k].name.tail = "APPEND"}

\* The trains fed after stacking, all modules of the detector being present.
StackedComplete(k) ==
    /\ det # NoDet
    /\ det.detector_sources \subseteq Keys(Original(fed[k].tid))

\* C6: a train fed after stacking, all detector modules being present,
\* holds exactly one synthetic source, named '<detector>/DET/APPEND', and
\* none of the module sources; the synthetic record's image.data is the
\* modules' arrays stacked in increasing module order and its
\* metadata.source is the synthetic name.
C6_StackedFrame ==
    \A k \in DOMAIN fed : StackedComplete(k) =>
        LET out == fed[k].train_data
            orig == Original(fed[k].tid)
            mods == det.detector_sources
            name == SrcName(det.detector_name, "APPEND", 0)
        IN  /\ Cardinality(AppendEntries(out)) = 1
            /\ name \in Keys(out)
            /\ Keys(out) \cap mods = {}
            /\ Get(out, name).metadata.source = name
            /\ Len(Get(out, name).image_data.cells) = Cardinality(mods)
            /\ Get(out, name).image_data.shape
                  = <<Cardinality(mods)>> \o ModuleShape
            /\ \A m \in mods :
                  Get(out, name).image_data.cells[ModuleRank(mods, m)]
                     = Get(orig, m).image_data.cells[1]

\* A train of two modules was stacked and fed.
C6_Witness ==
    \E k \in DOMAIN fed :
        /\ StackedComplete(k)
        /\ Cardinality(det.detector_sources) = 2
        /\ Len(fed[k].train_data) >= 1

\* ---------------------------------------------------------------- C7
\* C7: whatever the insertion order of the modules in the train's dict, the
\* stacked array holds the modules in increasing module order: its slice
\* at a module's rank is that module's array as the reader gave it.
C7_StackOrder ==
    \A k \in DOMAIN fed : StackedComplete(k) =>
        LET orig == Original(fed[k].tid)
            mods == det.detector_sources
            arr == Get(fed[k].train_data, AppendName(det)).image_data
        IN  \A m \in mods :
               Slice(arr, ModuleRank(mods, m)) = Get(orig, m).image_data

\* A train whose dict holds module 1 before module 0 was stacked and fed.
C7_Witness ==
    \E k \in DOMAIN fed :
        /\ StackedComplete(k)
        /\ \E i, j \in DOMAIN Original(fed[k].tid) :
              /\ i < j
              /\ Original(fed[k].tid)[i].name \in det.detector_sources
              /\ Original(fed[k].tid)[j].name \in det.detector_sources
              /\ Original(fed[k].tid)[i].name.modno
                    > Original(fed[k].tid)[j].name.modno

\* ---------------------------------------------------------------- C8
\* Two modules of the detected detector disagree on a key other than the
\* data key in train k of the run.
ModulesDisagree(k) ==
    LET d == FindDetector(append_detector_modules, sel)
        t == data[k].train_data
    IN  \E i, j \in DOMAIN t :
           /\ t[i].name \in d.detector_sources
           /\ t[j].name \in d.detector_sources
           /\ t[i].rec.pulseCount # t[j].rec.pulseCount

\* C8: for a train whose modules disagree on a key other than the data
\* key, no synthetic record is made (none is fed, none waits to be fed), and
\* the exception that ends the loop at that train is the
\* inconsistent-modules error.
C8_InconsistentModulesFail ==
    \A k \in DOMAIN data : ModulesDisagree(k) =>
        /\ \A j \in DOMAIN fed :
              fed[j].tid = data[k].tid => AppendEntries(fed[j].train_data) = {}
        /\ current.tid = data[k].tid => AppendEntries(current.train_data) = {}
        /\ next_train = k /\ pc = "raised" /\ error # "KeyboardInterrupt"
              => error = "InconsistentModulesError"

C8_Witness ==
    /\ pc = "raised"
    /\ error = "InconsistentModulesError"
    /\ ModulesDisagree(next_train)

\* ---------------------------------------------------------------- C9
\* C9: when opening the path fails, serve_files ends with that error and
\* the server is never started, no endpoint line is printed and no train
\* is fed.
C9_StartupErrorBeforeStreaming ==
    /\ OpenError(path) # "none" =>
          /\ pc \in {"open", "raised"}
          /\ ~started
          /\ ~endpoint_printed
          /\ fed = <<>>
          /\ buffer = <<>>
    /\ error \in StartupErrors => ~started /\ ~endpoint_printed /\ fed = <<>>

C9_Witness ==
    /\ pc = "raised"
    /\ error \in StartupErrors
    /\ ~started

\* ---------------------------------------------------------------- C10
\* C10: when an interrupt ends serve_files after the server was started,
\* stop() has been called on the server.
C10_InterruptStopsServer ==
    pc = "raised" /\ error = "KeyboardInterrupt" /\ started => stopped

\* ---------------------------------------------------------------- C11
\* serve_files has ended, by returning or by an exception.
Ended == pc \in {"done", "raised"}

\* C11: the server is started before the first feed, a train is only fed
\* between start and stop, stop comes after the loop has fed its last
\* train, and an execution that started the server ends with the server
\* stopped.
C11_Lifecycle ==
    /\ fed # <<>> \/ pc = "feed" => started /\ pc # "start"
    /\ pc = "feed" => ~stopped
    /\ stopped => pc = "done" /\ next_train > Len(data) /\ current = NoTrain
    /\ Ended /\ started => stopped

Priority == <<"AGIPD1M", "DSSC1M", "LPD1M">>

\* The selected sources a detector class accepts.
Accepted(conv) == {n \in Range(sel) : Matches(conv, n)}

\* serve_files is past its detection block.
Detected == pc \in {"start", "trains", "feed", "stop", "done"} \/ started

LowestModule(train_data, d) ==
    CHOOSE m \in Keys(train_data) \cap d.detector_sources :
        \A n \in Keys(train_data) \cap d.detector_sources : m.modno <= n.modno

\* The other keys and the metadata of the synthetic record of each train
\* fed after stacking are those of the train's lowest module.
RecordFromLowestModule ==
    \A k \in DOMAIN fed : StackedComplete(k) =>
        LET orig == Original(fed[k].tid)
            rec == Get(fed[k].train_data, AppendName(det))
        IN  rec = [Get(orig, LowestModule(orig, det))
                      EXCEPT !.image_data = rec.image_data,
                             !.metadata.source = AppendName(det)]

\* C14: the module whose record becomes the synthetic record is the
\* train's lowest module whatever the insertion order of the dict, so the
\* synthetic record is the same for every insertion order.
C14_LowestModuleChosen ==
    /\ mod_source # NoModule =>
          mod_source.name = LowestModule(Original(mod_source.tid), det)
    /\ RecordFromLowestModule

ModulesAbsent(k) ==
    /\ data[k].train_data # <<>>
    /\ FindDetector(append_detector_modules, sel) # NoDet
    /\ ~(FindDetector(append_detector_modules, sel).detector_sources
            \subseteq Keys(data[k].train_data))

\* C16: removing the module sources raises no KeyError for a module that
\* is absent from a train, and once the loop is over every non-empty train
\* with absent modules has been fed.
C16_PartialTrainIsFed ==
    /\ error # "KeyError"
    /\ \A k \in DOMAIN data :
          ModulesAbsent(k) /\ LoopOver => data[k].tid \in FedTids

\* ---------------------------------------------------------------- C17
\* The entries of a dict that are no module sources of detector d.
OtherEntries(train_data, d) ==
    SelectSeq(train_data, LAMBDA e : e.name \notin d.detector_sources)

\* C17: in a train fed after stacking, every source that is no module of
\* the detector is present under its name with the record the reader gave,
\* and the synthetic source is the only source added.
C17_OtherSourcesUntouched ==
    \A k \in DOMAIN fed : det # NoDet =>
        LET out == fed[k].train_data
            orig == Original(fed[k].tid)
        IN  /\ \A j \in DOMAIN orig :
                  orig[j].name \notin det.detector_sources =>
                     /\ orig[j].name \in Keys(out)
                     /\ Get(out, orig[j].name) = orig[j].rec
            /\ Keys(out) = Keys(OtherEntries(orig, det)) \cup {AppendName(det)}

\* A train with a source of another detector and a source that is no
\* detector module was stacked and fed.
C17_Witness ==
    \E k \in DOMAIN fed :
        /\ det # NoDet
        /\ AppendName(det) \in Keys(fed[k].train_data)
        /\ \E n \in Keys(fed[k].train_data) : n.tail = "CH"
        /\ \E n \in Keys(fed[k].train_data) : n.tail = "OTHER"

\* ---------------------------------------------------------------- C18
\* C18: with a readable path, no signal and a client that keeps draining,
\* serve_files does not end before it has fed the last non-empty train and
\* called stop(): no exception ends it, a producer waiting on a full queue
\* can always be released by the client, and when it returns every
\* non-empty train has been fed and the server is stopped.
C18_ProducerFinishes ==
    /\ pc = "raised" => error \in StartupErrors
    /\ pc = "feed" /\ Full(buffer, maxlen) => ENABLED Serve
    /\ pc = "done" => stopped /\ FedTids = NonEmptyTids

\* Without a detector in use, serve_files always returns.
ReturnsWithoutDetector ==
    (pc = "trains" /\ det = NoDet) ~> (pc = "done")

====
